---- MODULE Spec2Model ----
(***************************************************************************)
(* A model of the contentFactory scripts:                                  *)
(*   - editor.py  : read_subtitle_file and the split loop that cuts the    *)
(*                  composed video into parts;                             *)
(*   - sub.py     : split_segment_into_short_segments, transcribe_audio    *)
(*                  and the __main__ block.                                *)
(* Python strings are sequences of one-character strings, so that strip,   *)
(* indexing, slicing, split and float parsing are computed, not assumed.   *)
(* Durations and timestamps are whole ticks (the scripts use floats).      *)
(***************************************************************************)
EXTENDS Integers, Sequences, FiniteSets

VARIABLES
    \* editor.py, split loop (lines 121-135)
    total_duration, start_time, video_parts, dropped_parts, ppc,
    \* sub.py, split_segment_into_short_segments (lines 9-52)
    seg_words, seg_words0, max_words, chunk, short_segments, widx, spc, runs,
    \* sub.py, transcribe_audio and __main__ (lines 54-88)
    argv_given, audio_exists, result_segments, seg_idx, all_short_segments,
    stdout, exit_code, pending_exc, failed, mpc,
    \* editor.py, read_subtitle_file (lines 6-32)
    lines, li, subtitles, visited, rpc

partVars == <<total_duration, start_time, video_parts, dropped_parts, ppc>>
splitVars == <<seg_words, seg_words0, max_words, chunk, short_segments, widx, spc, runs>>
mainVars == <<argv_given, audio_exists, result_segments, seg_idx, all_short_segments,
              stdout, exit_code, pending_exc, failed, mpc>>
srtVars == <<lines, li, subtitles, visited, rpc>>
vars == <<partVars, splitVars, mainVars, srtVars>>

\* ------------------------------------------------------------------ bounds
MaxTotal == 200
MaxLen == 3
MaxWordsPerUnit == 3
MaxRuns == 2
MaxSegs == 2
MaxLines == 3

\* ------------------------------------------------------- program constants
max_duration == 90
min_duration == 30

Min(a, b) == IF a <= b THEN a ELSE b

\* ============================================================ editor.py split loop

PartInitIdle ==
    /\ total_duration = 0 /\ start_time = 0 /\ video_parts = <<>>
    /\ dropped_parts = <<>> /\ ppc = "idle"

SplitInitIdle ==
    /\ seg_words = <<>> /\ seg_words0 = <<>> /\ max_words = 0 /\ chunk = <<>>
    /\ short_segments = <<>> /\ widx = 0 /\ spc = "idle" /\ runs = <<>>

MainInitIdle ==
    /\ argv_given = FALSE /\ audio_exists = FALSE /\ result_segments = <<>>
    /\ seg_idx = 0 /\ all_short_segments = <<>> /\ stdout = <<>>
    /\ exit_code = -1 /\ pending_exc = "none" /\ failed = "none" /\ mpc = "idle"

SrtInitIdle ==
    /\ lines = <<>> /\ li = 0 /\ subtitles = <<>> /\ visited = <<>> /\ rpc = "idle"

\* end_time = min(start_time + max_duration, total_duration)
WindowEndNoClamp(s, t) == s + max_duration
WindowEnd(s, t) == Min(s + max_duration, t)

\* final_video.subclipped(start_time, end_time): a clip of duration end - start
Subclipped(s, e) == [start |-> s, end |-> e, duration |-> e - s]

\* if part.duration >= 30
KeepAny(part) == part.duration > 0
Keep(part) == part.duration >= min_duration

\* start_time = end_time
NextStartOverlap(s, e) == IF e - s = max_duration THEN e - 1 ELSE e
NextStart(s, e) == e

PartInit ==
    /\ total_duration \in 0..MaxTotal
    /\ start_time = 0
    /\ video_parts = <<>>
    /\ dropped_parts = <<>>
    /\ ppc = "loop"

\* one iteration of `while start_time < total_duration`
SplitStep ==
    /\ ppc = "loop"
    /\ start_time < total_duration
    /\ LET end_time == WindowEnd(start_time, total_duration)
           part == Subclipped(start_time, end_time)
       IN /\ IF Keep(part)
                THEN /\ video_parts' = Append(video_parts, part)
                     /\ UNCHANGED dropped_parts
                ELSE /\ dropped_parts' = Append(dropped_parts, part)
                     /\ UNCHANGED video_parts
          /\ start_time' = NextStart(start_time, end_time)
    /\ UNCHANGED <<total_duration, ppc>>
    /\ UNCHANGED <<splitVars, mainVars, srtVars>>

\* the loop condition fails: control reaches the export loop
SplitExit ==
    /\ ppc = "loop"
    /\ ~(start_time < total_duration)
    /\ ppc' = "export"
    /\ UNCHANGED <<total_duration, start_time, video_parts, dropped_parts>>
    /\ UNCHANGED <<splitVars, mainVars, srtVars>>

PartNext == SplitStep \/ SplitExit

InitPart == PartInit /\ SplitInitIdle /\ MainInitIdle /\ SrtInitIdle

SpecPart == InitPart /\ [][PartNext]_vars

RECURSIVE SumDuration(_)
SumDuration(ps) ==
    IF ps = <<>> THEN 0 ELSE ps[1].duration + SumDuration(Tail(ps))

\* C1: coverage law. Once the split loop has finished, the kept parts' durations
\* sum to at most the timeline duration, and to exactly the timeline duration
\* unless the final window was dropped for being shorter than min_duration; at
\* every moment, a dropped window is the final one (it ends at the timeline's end,
\* at most one is dropped) and is shorter than min_duration.
C1_Coverage ==
    /\ Len(dropped_parts) <= 1
    /\ \A k \in 1..Len(dropped_parts) :
          /\ dropped_parts[k].end = total_duration
          /\ dropped_parts[k].duration < min_duration
    /\ ppc = "export" =>
          /\ SumDuration(video_parts) <= total_duration
          /\ (dropped_parts = <<>> => SumDuration(video_parts) = total_duration)
          /\ SumDuration(video_parts) + SumDuration(dropped_parts) = total_duration

C1_Witness ==
    /\ ppc = "export"
    /\ Len(video_parts) = 2
    /\ Len(dropped_parts) = 1
    /\ SumDuration(video_parts) < total_duration

\* C2: boundary law. In the list of kept parts, each part ends where the next one
\* starts, the first kept part starts at offset 0, and no two kept parts overlap.
C2_Boundary ==
    /\ \A k \in 1..(Len(video_parts) - 1) :
          video_parts[k].end = video_parts[k + 1].start
    /\ (Len(video_parts) >= 1 => video_parts[1].start = 0)
    /\ \A j, k \in 1..Len(video_parts) :
          j < k => /\ video_parts[j].end <= video_parts[k].start
                   /\ video_parts[j].start < video_parts[j].end

C2_Witness ==
    /\ ppc = "export"
    /\ Len(video_parts) >= 2
    /\ video_parts[2].start = max_duration

\* C3: every kept part lasts at least min_duration and at most max_duration; a
\* shorter trailing remainder is dropped: it starts where the last kept part ends
\* (it is not merged into it) and no kept part reaches past that point (no padding).
C3_Bounded ==
    /\ \A k \in 1..Len(video_parts) :
          /\ video_parts[k].duration >= min_duration
          /\ video_parts[k].duration <= max_duration
          /\ video_parts[k].duration = video_parts[k].end - video_parts[k].start
    /\ \A d \in 1..Len(dropped_parts) :
          /\ dropped_parts[d].duration < min_duration
          /\ \A k \in 1..Len(video_parts) :
                video_parts[k].end <= dropped_parts[d].start
          /\ (video_parts # <<>> =>
                video_parts[Len(video_parts)].end = dropped_parts[d].start)

C3_Witness ==
    /\ ppc = "export"
    /\ Len(video_parts) >= 1
    /\ Len(dropped_parts) = 1
    /\ video_parts[Len(video_parts)].end < total_duration

\* ============================================================ Python strings

Whitespace == {" ", "\n", "\t"}
Punctuation == {".", ",", "!", "?"}

RECURSIVE LStrip(_)
LStrip(s) ==
    IF s # <<>> /\ s[1] \in Whitespace THEN LStrip(Tail(s)) ELSE s

RECURSIVE RStrip(_)
RStrip(s) ==
    IF s # <<>> /\ s[Len(s)] \in Whitespace
        THEN RStrip(SubSeq(s, 1, Len(s) - 1)) ELSE s

\* str.strip()
Strip(s) == RStrip(LStrip(s))

\* s[:-1]
DropLast(s) == SubSeq(s, 1, Len(s) - 1)

\* " ".join(strs)
RECURSIVE JoinSpace(_)
JoinSpace(strs) ==
    IF strs = <<>> THEN <<>>
    ELSE IF Len(strs) = 1 THEN strs[1]
    ELSE strs[1] \o <<" ">> \o JoinSpace(Tail(strs))

\* ============================================================ sub.py splitter

\* word["word"][-1] in ".,!?"  (the word is not empty here)
EndsInPunctuation(w) == w[Len(w)] \in Punctuation

\* len(chunk) >= max_words or word["word"][-1] in ".,!?"
ClosesChunk(ch, w, mw) == Len(ch) >= mw \/ EndsInPunctuation(w)

\* if word["word"][-1] in ".,!?": word["word"] = word["word"][:-1]
CleanTrailingPunctuation(w) == IF EndsInPunctuation(w) THEN DropLast(w) ELSE w

\* The unit appended to short_segments for a chunk (a list of references to the
\* word records, here indices into ws). start, end and text are the unit as the
\* code builds it; first, last, closed, lastword and closer record which words it
\* was built from and why the chunk was closed.
UnitStart(ch, ws) == ws[ch[1]].start

MakeUnit(ch, ws, why, c) ==
    [start    |-> UnitStart(ch, ws),
     end      |-> ws[ch[Len(ch)]].end,
     text     |-> JoinSpace([k \in 1..Len(ch) |-> ws[ch[k]].word]),
     first    |-> ch[1],
     last     |-> ch[Len(ch)],
     closed   |-> why,
     lastword |-> ws[ch[Len(ch)]].word,
     closer   |-> c]

\* what a caller sees of a unit
Visible(u) == [start |-> u.start, end |-> u.end, text |-> u.text]
VisibleAll(us) == [k \in 1..Len(us) |-> Visible(us[k])]

\* The body of `for word in words` for the word at index k, on the function's
\* locals st = [words, chunk, segs, raised].
LoopBody(st, k, mw) ==
    LET w1 == Strip(st.words[k].word)
        words1 == [st.words EXCEPT ![k].word = w1]
        chunk1 == Append(st.chunk, k)
    IN IF w1 = <<>>
          \* word["word"][-1] on an empty string: IndexError
          THEN [words |-> words1, chunk |-> chunk1, segs |-> st.segs,
                raised |-> TRUE]
       ELSE IF ClosesChunk(chunk1, w1, mw)
          THEN LET words2 == [words1 EXCEPT ![k].word = CleanTrailingPunctuation(w1)]
                   why == IF EndsInPunctuation(w1) THEN "punct" ELSE "count"
                   c == IF EndsInPunctuation(w1) THEN w1[Len(w1)] ELSE ""
               IN [words |-> words2, chunk |-> <<>>,
                   segs |-> Append(st.segs, MakeUnit(chunk1, words2, why, c)),
                   raised |-> FALSE]
       ELSE [words |-> words1, chunk |-> chunk1, segs |-> st.segs,
             raised |-> FALSE]

\* if chunk: short_segments.append({...})
FlushNothing(segs, ch, ws) == segs
Flush(segs, ch, ws) ==
    IF ch # <<>> THEN Append(segs, MakeUnit(ch, ws, "flush", "")) ELSE segs

\* the whole function on one word list: [raised, segs, words]
RECURSIVE SplitFrom(_, _, _)
SplitFrom(st, k, mw) ==
    IF st.raised THEN st
    ELSE IF k > Len(st.words)
        THEN [st EXCEPT !.segs = Flush(st.segs, st.chunk, st.words), !.chunk = <<>>]
    ELSE SplitFrom(LoopBody(st, k, mw), k + 1, mw)

split_segment_into_short_segments(ws, mw) ==
    SplitFrom([words |-> ws, chunk |-> <<>>, segs |-> <<>>, raised |-> FALSE], 1, mw)

\* the word texts a recognizer segment is drawn from
WordTexts ==
    { <<"a">>, <<"b", ".">>, <<" ", "c", ",">>, <<"w", ".", ".">>, <<".">>, <<" ">> }

\* a word list with texts ts: the k-th word is spoken from tick 2k-2 to tick 2k-1
WordsOf(ts) ==
    [k \in 1..Len(ts) |-> [word |-> ts[k], start |-> 2 * k - 2, end |-> 2 * k - 1]]

TextLists == UNION { [1..n -> WordTexts] : n \in 0..MaxLen }

SplitInitWith(mws) ==
    /\ seg_words \in { WordsOf(ts) : ts \in TextLists }
    /\ seg_words0 = seg_words
    /\ max_words \in mws
    /\ chunk = <<>>
    /\ short_segments = <<>>
    /\ widx = 0
    /\ spc = "call"
    /\ runs = <<>>

\* lines 14-16: short_segments = [], words = segment.get("words", []), chunk = []
SplitEnter ==
    /\ spc = "call"
    /\ short_segments' = <<>>
    /\ chunk' = <<>>
    /\ widx' = 1
    /\ spc' = "loop"
    /\ UNCHANGED <<seg_words, seg_words0, max_words, runs>>
    /\ UNCHANGED <<partVars, mainVars, srtVars>>

\* one iteration of `for word in words`
SplitWord ==
    /\ spc = "loop"
    /\ widx <= Len(seg_words)
    /\ LET st == LoopBody([words |-> seg_words, chunk |-> chunk,
                           segs |-> short_segments, raised |-> FALSE],
                          widx, max_words)
       IN /\ seg_words' = st.words
          /\ chunk' = st.chunk
          /\ short_segments' = st.segs
          /\ spc' = IF st.raised THEN "raised" ELSE "loop"
          /\ widx' = IF st.raised THEN widx ELSE widx + 1
    /\ UNCHANGED <<seg_words0, max_words, runs>>
    /\ UNCHANGED <<partVars, mainVars, srtVars>>

\* lines 41-52: flush the leftover chunk and return
SplitReturn ==
    /\ spc = "loop"
    /\ widx > Len(seg_words)
    /\ short_segments' = Flush(short_segments, chunk, seg_words)
    /\ spc' = "returned"
    /\ runs' = Append(runs, VisibleAll(short_segments'))
    /\ UNCHANGED <<seg_words, seg_words0, max_words, chunk, widx>>
    /\ UNCHANGED <<partVars, mainVars, srtVars>>

\* the caller runs the function again on the same segment record
SplitAgain ==
    /\ spc = "returned"
    /\ Len(runs) < MaxRuns
    /\ spc' = "call"
    /\ UNCHANGED <<seg_words, seg_words0, max_words, chunk, short_segments, widx, runs>>
    /\ UNCHANGED <<partVars, mainVars, srtVars>>

SplitNext == SplitEnter \/ SplitWord \/ SplitReturn \/ SplitAgain

\* every max_words a caller can pass, 0 included
SplitInit == SplitInitWith(0..MaxWordsPerUnit)

InitSplit == SplitInit /\ PartInitIdle /\ MainInitIdle /\ SrtInitIdle

SpecSplit == InitSplit /\ [][SplitNext]_vars

\* the calls with max_words >= 1
SplitInitValid == SplitInitWith(1..MaxWordsPerUnit)

InitSplitValid == SplitInitValid /\ PartInitIdle /\ MainInitIdle /\ SrtInitIdle

SpecSplitValid == InitSplitValid /\ [][SplitNext]_vars

WordCount(u) == u.last - u.first + 1

\* C4: every unit is built from at least 1 and at most max_words words, and a unit
\* with fewer than max_words words that was not closed by punctuation is the
\* flushed final unit of the segment.
C4_WordCount ==
    \A k \in 1..Len(short_segments) :
        LET u == short_segments[k]
        IN /\ WordCount(u) >= 1
           /\ WordCount(u) <= max_words
           /\ (WordCount(u) < max_words /\ u.closed # "punct") =>
                 (u.closed = "flush" /\ k = Len(short_segments))

\* C5: a unit whose chunk was closed because its last word, trimmed, ends in one of
\* . , ! ? does not contain that character in its final word's text.
C5_PunctuationStripped ==
    \A k \in 1..Len(short_segments) :
        LET u == short_segments[k]
        IN u.closed = "punct" =>
              \A j \in 1..Len(u.lastword) : u.lastword[j] # u.closer

\* C6: a second run of the function on the same segment record returns the same
\* sequence of units as the first run.
C6_Deterministic ==
    Len(runs) >= 2 => runs[2] = runs[1]

\* C7: a call with max_words < 1 ends in an error and produces no units.
C7_InvalidConfig ==
    max_words < 1 =>
        /\ spc # "returned"
        /\ short_segments = <<>>

\* C10: word conservation. When the function returns, the units' word runs tile
\* the input list in order (the first starts at word 1, each next one starts right
\* after the previous one's last word, the last ends at the final word), each
\* unit's start is its first word's start and its end its last word's end, and a
\* non-empty leftover chunk has been flushed as the final unit.
C10_Conservation ==
    spc = "returned" =>
        LET n == Len(short_segments)
        IN /\ (seg_words = <<>>) = (n = 0)
           /\ n >= 1 => /\ short_segments[1].first = 1
                        /\ short_segments[n].last = Len(seg_words)
           /\ \A k \in 1..n :
                 /\ short_segments[k].first <= short_segments[k].last
                 /\ short_segments[k].start = seg_words0[short_segments[k].first].start
                 /\ short_segments[k].end = seg_words0[short_segments[k].last].end
           /\ \A k \in 1..(n - 1) :
                 short_segments[k + 1].first = short_segments[k].last + 1
           /\ (chunk # <<>> =>
                 /\ short_segments[n].closed = "flush"
                 /\ short_segments[n].first = chunk[1]
                 /\ short_segments[n].last = chunk[Len(chunk)])

C10_Witness ==
    /\ spc = "returned"
    /\ Len(seg_words) = 3
    /\ Len(short_segments) = 2
    /\ short_segments[1].closed = "punct"
    /\ short_segments[2].closed = "flush"
    /\ WordCount(short_segments[2]) = 2

\* ============================================================ sub.py script

\* split_segment_into_short_segments(segment, max_words=3)
transcribe_max_words == 3

\* the word lists of the segments the recognizer may return
MainTextLists ==
    { <<>>, << <<"a">>, <<"b", ".">> >>, << <<" ", "c", ",">>, <<"a">> >>, << <<" ">> >> }

MainSegments == { [words |-> WordsOf(ts)] : ts \in MainTextLists }

\* json.dumps({"error": str(e)}) and json.dumps(segments, indent=2) on stdout
ErrorPayload(msg) == [kind |-> "error", body |-> msg]
SegmentsPayload(segs) == [kind |-> "segments", body |-> segs]

\* `except Exception` catches every exception but SystemExit, KeyboardInterrupt and
\* GeneratorExit, which derive from BaseException only
CaughtByExceptException(e) == e \notin {"SystemExit", "KeyboardInterrupt", "GeneratorExit"}

\* what leaves the handler of transcribe_audio: sys.exit(1) raises SystemExit
HandlerReraises(e) == e
HandlerLeavesWith(e) == "SystemExit"

MainInit ==
    /\ argv_given \in BOOLEAN
    /\ audio_exists \in BOOLEAN
    /\ result_segments \in UNION { [1..n -> MainSegments] : n \in 0..MaxSegs }
    /\ seg_idx = 0
    /\ all_short_segments = <<>>
    /\ stdout = <<>>
    /\ exit_code = -1
    /\ pending_exc = "none"
    /\ failed = "none"
    /\ mpc = "main"

\* lines 76-80: if len(sys.argv) < 2: print the usage error and sys.exit(1), which
\* no try block surrounds
MainCheckArgs ==
    /\ mpc = "main"
    /\ IF ~argv_given
          THEN /\ stdout' = Append(stdout, ErrorPayload("usage"))
               /\ exit_code' = 1
               /\ failed' = "usage"
               /\ mpc' = "exited"
          ELSE /\ mpc' = "exists"
               /\ UNCHANGED <<stdout, exit_code, failed>>
    /\ UNCHANGED <<argv_given, audio_exists, result_segments, seg_idx,
                   all_short_segments, pending_exc>>
    /\ UNCHANGED <<partVars, splitVars, srtVars>>

\* lines 57-58: if not os.path.exists(audio_file): raise FileNotFoundError
CheckExists ==
    /\ mpc = "exists"
    /\ IF ~audio_exists
          THEN /\ pending_exc' = "FileNotFoundError"
               /\ failed' = "FileNotFoundError"
               /\ mpc' = "except_transcribe"
          ELSE /\ mpc' = "load_model"
               /\ UNCHANGED <<pending_exc, failed>>
    /\ UNCHANGED <<argv_given, audio_exists, result_segments, seg_idx,
                   all_short_segments, stdout, exit_code>>
    /\ UNCHANGED <<partVars, splitVars, srtVars>>

\* line 61: whisper.load_model returns or raises
LoadModel ==
    /\ mpc = "load_model"
    /\ \E ok \in BOOLEAN :
          IF ok THEN /\ mpc' = "transcribe"
                     /\ UNCHANGED <<pending_exc, failed>>
                ELSE /\ pending_exc' = "RuntimeError"
                     /\ failed' = "load_model"
                     /\ mpc' = "except_transcribe"
    /\ UNCHANGED <<argv_given, audio_exists, result_segments, seg_idx,
                   all_short_segments, stdout, exit_code>>
    /\ UNCHANGED <<partVars, splitVars, srtVars>>

\* lines 62-65: model.transcribe returns result_segments or raises
Transcribe ==
    /\ mpc = "transcribe"
    /\ \E ok \in BOOLEAN :
          IF ok THEN /\ mpc' = "split"
                     /\ seg_idx' = 1
                     /\ all_short_segments' = <<>>
                     /\ UNCHANGED <<pending_exc, failed>>
                ELSE /\ pending_exc' = "RuntimeError"
                     /\ failed' = "transcribe"
                     /\ mpc' = "except_transcribe"
                     /\ UNCHANGED <<seg_idx, all_short_segments>>
    /\ UNCHANGED <<argv_given, audio_exists, result_segments, stdout, exit_code>>
    /\ UNCHANGED <<partVars, splitVars, srtVars>>

\* lines 66-68: one iteration of `for segment in result["segments"]`
SplitSegment ==
    /\ mpc = "split"
    /\ seg_idx <= Len(result_segments)
    /\ LET r == split_segment_into_short_segments(result_segments[seg_idx].words,
                                                  transcribe_max_words)
       IN IF r.raised
             THEN /\ pending_exc' = "IndexError"
                  /\ failed' = "split"
                  /\ mpc' = "except_transcribe"
                  /\ UNCHANGED <<seg_idx, all_short_segments, result_segments>>
             ELSE /\ all_short_segments' = all_short_segments \o VisibleAll(r.segs)
                  /\ result_segments' = [result_segments EXCEPT ![seg_idx].words = r.words]
                  /\ seg_idx' = seg_idx + 1
                  /\ UNCHANGED <<pending_exc, failed, mpc>>
    /\ UNCHANGED <<argv_given, audio_exists, stdout, exit_code>>
    /\ UNCHANGED <<partVars, splitVars, srtVars>>

\* line 70: return all_short_segments
TranscribeReturn ==
    /\ mpc = "split"
    /\ seg_idx > Len(result_segments)
    /\ mpc' = "print"
    /\ UNCHANGED <<argv_given, audio_exists, result_segments, seg_idx,
                   all_short_segments, stdout, exit_code, pending_exc, failed>>
    /\ UNCHANGED <<partVars, splitVars, srtVars>>

\* lines 71-73: except Exception as e: print the error; sys.exit(1)
TranscribeHandler ==
    /\ mpc = "except_transcribe"
    /\ CaughtByExceptException(pending_exc)
    /\ stdout' = Append(stdout, ErrorPayload(pending_exc))
    /\ pending_exc' = HandlerLeavesWith(pending_exc)
    /\ mpc' = "except_main"
    /\ UNCHANGED <<argv_given, audio_exists, result_segments, seg_idx,
                   all_short_segments, exit_code, failed>>
    /\ UNCHANGED <<partVars, splitVars, srtVars>>

\* lines 86-88: an exception leaving transcribe_audio reaches the try of __main__:
\* except Exception prints the error and exits with 1; SystemExit is not caught and
\* ends the process with its own code, 1
MainHandler ==
    /\ mpc = "except_main"
    /\ IF CaughtByExceptException(pending_exc)
          THEN stdout' = Append(stdout, ErrorPayload(pending_exc))
          ELSE UNCHANGED stdout
    /\ exit_code' = 1
    /\ mpc' = "exited"
    /\ UNCHANGED <<argv_given, audio_exists, result_segments, seg_idx,
                   all_short_segments, pending_exc, failed>>
    /\ UNCHANGED <<partVars, splitVars, srtVars>>

\* line 85: print(json.dumps(segments, indent=2)), then the script ends
PrintSegments ==
    /\ mpc = "print"
    /\ stdout' = Append(stdout, SegmentsPayload(all_short_segments))
    /\ exit_code' = 0
    /\ mpc' = "exited"
    /\ UNCHANGED <<argv_given, audio_exists, result_segments, seg_idx,
                   all_short_segments, pending_exc, failed>>
    /\ UNCHANGED <<partVars, splitVars, srtVars>>

MainNext ==
    \/ MainCheckArgs \/ CheckExists \/ LoadModel \/ Transcribe \/ SplitSegment
    \/ TranscribeReturn \/ TranscribeHandler \/ MainHandler \/ PrintSegments

InitMain == MainInit /\ PartInitIdle /\ SplitInitIdle /\ SrtInitIdle

SpecMain == InitMain /\ [][MainNext]_vars

PayloadsOfKind(kind) == { k \in 1..Len(stdout) : stdout[k].kind = kind }

\* C8: when the script has failed (no argument, audio file absent, load_model or
\* transcribe raising, the splitter raising), it has, once ended, printed exactly
\* one error payload and no segment list and its exit code is not 0; it prints the
\* segment list only when nothing failed, and then ends with exit code 0.
C8_ErrorPayload ==
    /\ Cardinality(PayloadsOfKind("error")) <= 1
    /\ (PayloadsOfKind("segments") # {} => failed = "none")
    /\ mpc = "exited" =>
          IF failed # "none"
             THEN /\ Len(stdout) = 1
                  /\ stdout[1].kind = "error"
                  /\ exit_code # 0
             ELSE /\ Len(stdout) = 1
                  /\ stdout[1].kind = "segments"
                  /\ exit_code = 0

C8_Witness ==
    /\ mpc = "exited"
    /\ failed = "split"
    /\ seg_idx = 2
    /\ stdout = <<ErrorPayload("IndexError")>>
    /\ exit_code = 1

\* ============================================================ editor.py read_subtitle_file

Digits == {"0", "1", "2", "3", "4", "5", "6", "7", "8", "9"}

DigitValue(c) ==
    CASE c = "0" -> 0 [] c = "1" -> 1 [] c = "2" -> 2 [] c = "3" -> 3 [] c = "4" -> 4
      [] c = "5" -> 5 [] c = "6" -> 6 [] c = "7" -> 7 [] c = "8" -> 8 [] c = "9" -> 9

\* str.isdigit() on the characters modelled
IsDigitString(s) == s # <<>> /\ \A k \in 1..Len(s) : s[k] \in Digits

StartsWith(s, p) == Len(s) >= Len(p) /\ SubSeq(s, 1, Len(p)) = p

\* s.split(sep): the pieces of s between the occurrences of sep, left to right
RECURSIVE SplitAcc(_, _, _)
SplitAcc(s, sep, cur) ==
    IF s = <<>> THEN <<cur>>
    ELSE IF StartsWith(s, sep)
        THEN <<cur>> \o SplitAcc(SubSeq(s, Len(sep) + 1, Len(s)), sep, <<>>)
    ELSE SplitAcc(Tail(s), sep, Append(cur, s[1]))

Split(s, sep) == SplitAcc(s, sep, <<>>)

\* s.replace(a, b) for single characters
Replace(s, a, b) == [k \in 1..Len(s) |-> IF s[k] = a THEN b ELSE s[k]]

Arrow == <<" ", "-", "-", ">", " ">>

Unsigned(s) == IF s # <<>> /\ s[1] \in {"+", "-"} THEN Tail(s) ELSE s

IsDecimal(s) ==
    /\ \A k \in 1..Len(s) : s[k] \in Digits \cup {"."}
    /\ \E k \in 1..Len(s) : s[k] \in Digits
    /\ Cardinality({k \in 1..Len(s) : s[k] = "."}) <= 1

\* float(s) accepts, around optional whitespace and after an optional sign, digits
\* with at most one point and at least one digit, and the words nan, inf and
\* infinity (exponents and digit-group underscores are not drawn here)
FloatAccepts(s) ==
    LET u == Unsigned(Strip(s))
    IN \/ IsDecimal(u)
       \/ u \in { <<"n", "a", "n">>, <<"i", "n", "f">>,
                  <<"i", "n", "f", "i", "n", "i", "t", "y">> }

RECURSIVE DigitsValue(_)
DigitsValue(s) ==
    IF s = <<>> THEN 0 ELSE 10 * DigitsValue(SubSeq(s, 1, Len(s) - 1)) + DigitValue(s[Len(s)])

\* float(s) of an accepted s: a number in thousandths of a second, or nan / inf
FloatOf(s) ==
    LET t == Strip(s)
        u == Unsigned(t)
        sign == IF t # <<>> /\ t[1] = "-" THEN -1 ELSE 1
    IN IF ~IsDecimal(u)
          THEN [special |-> SubSeq(u, 1, 3), ms |-> sign]
       ELSE LET parts == Split(u, <<".">>)
                frac == IF Len(parts) = 2 THEN parts[2] ELSE <<>>
                frac3 == SubSeq(frac \o <<"0", "0", "0">>, 1, 3)
            IN [special |-> <<>>,
                ms |-> sign * (1000 * DigitsValue(parts[1]) + DigitsValue(frac3))]

\* the inner while: the index of the first line at or after j that is past the end
\* of the file or blank once stripped
RECURSIVE TextEnd(_, _)
TextEnd(ls, j) ==
    IF j <= Len(ls) /\ Strip(ls[j]) # <<>> THEN TextEnd(ls, j + 1) ELSE j

\* text += lines[i].strip() + ' ' for the lines j..e-1
RECURSIVE TextOf(_, _, _)
TextOf(ls, j, e) ==
    IF j >= e THEN <<>> ELSE Strip(ls[j]) \o <<" ">> \o TextOf(ls, j + 1, e)

\* lines 15-17 on the line after an index line (absent: next = <<>>, has = FALSE):
\* the exception raised, or "none" with the two times
ParseTimes(has, next) ==
    IF ~has THEN [exc |-> "IndexError"]
    ELSE LET times == Split(Strip(next), Arrow)
         IN IF ~FloatAccepts(Replace(times[1], ",", "."))
               THEN [exc |-> "ValueError"]
            ELSE IF Len(times) < 2 THEN [exc |-> "IndexError"]
            ELSE IF ~FloatAccepts(Replace(times[2], ",", "."))
               THEN [exc |-> "ValueError"]
            ELSE [exc |-> "none",
                  start_time |-> FloatOf(Replace(times[1], ",", ".")),
                  end_time |-> FloatOf(Replace(times[2], ",", "."))]

NL == <<"\n">>

\* the lines a subtitle file is drawn from, as file.readlines() returns them
FileLines ==
    { <<"1">> \o NL,
      <<"0", ",", "0">> \o Arrow \o <<"0", ",", "4">> \o NL,
      <<"h", "i">> \o NL,
      NL,
      <<"0", ",", "4">> \o NL,
      <<"0", ",", "0">> \o Arrow \o <<"x">> \o NL,
      <<"0", ",", "0">> \o Arrow \o <<"0", ",", "4">> \o Arrow \o <<"0", ",", "9">> \o NL,
      <<"n", "a", "n">> \o Arrow \o <<"i", "n", "f">> \o NL }

SrtInit ==
    /\ lines \in UNION { [1..n -> FileLines] : n \in 0..MaxLines }
    /\ li = 1
    /\ subtitles = <<>>
    /\ visited = <<>>
    /\ rpc = "loop"

\* one iteration of `while i < len(lines)` (li is i + 1)
ReadStep ==
    /\ rpc = "loop"
    /\ li <= Len(lines)
    /\ IF IsDigitString(Strip(lines[li]))
          THEN LET has == li + 1 <= Len(lines)
                   t == ParseTimes(has, IF has THEN lines[li + 1] ELSE <<>>)
                   e == TextEnd(lines, li + 2)
               IN /\ visited' = Append(visited, li)
                  /\ IF t.exc # "none"
                        THEN /\ rpc' = t.exc
                             /\ UNCHANGED <<li, subtitles>>
                        ELSE /\ subtitles' = Append(subtitles,
                                    [start |-> t.start_time, end |-> t.end_time,
                                     text |-> Strip(TextOf(lines, li + 2, e))])
                             /\ li' = e + 1
                             /\ UNCHANGED rpc
          ELSE /\ li' = li + 1
               /\ UNCHANGED <<subtitles, visited, rpc>>
    /\ UNCHANGED lines
    /\ UNCHANGED <<partVars, splitVars, mainVars>>

\* line 32: return subtitles
ReadReturn ==
    /\ rpc = "loop"
    /\ li > Len(lines)
    /\ rpc' = "returned"
    /\ UNCHANGED <<lines, li, subtitles, visited>>
    /\ UNCHANGED <<partVars, splitVars, mainVars>>

SrtNext == ReadStep \/ ReadReturn

InitSrt == SrtInit /\ PartInitIdle /\ SplitInitIdle /\ MainInitIdle

SpecSrt == InitSrt /\ [][SrtNext]_vars

\* a comma-decimal number: digits, or digits "," digits
IsCommaDecimal(s) ==
    LET parts == Split(s, <<",">>)
    IN /\ Len(parts) \in {1, 2}
       /\ \A k \in 1..Len(parts) : IsDigitString(parts[k])

\* a valid timecode line: exactly two comma-decimal numbers around one " --> "
ValidTimecode(line) ==
    LET sides == Split(Strip(line), Arrow)
    IN /\ Len(sides) = 2
       /\ IsCommaDecimal(sides[1])
       /\ IsCommaDecimal(sides[2])

FollowedByValidTimecode(k) == k + 1 <= Len(lines) /\ ValidTimecode(lines[k + 1])

ParseFailed == rpc \in {"IndexError", "ValueError"}

\* C9: when the index line of the k-th block is not followed by a valid timecode
\* line, the parse fails and has emitted no unit for that block; a parse that
\* returns has produced exactly one unit per block.
C9_Malformed ==
    /\ \A k \in 1..Len(visited) :
          ~FollowedByValidTimecode(visited[k]) => (ParseFailed /\ Len(subtitles) < k)
    /\ rpc = "returned" => Len(subtitles) = Len(visited)

====
